---------------------------- MODULE Spec2Model ----------------------------
(***************************************************************************)
(* Model of the voltorb-flip game model (src/model.py): board generation,  *)
(* row/column hints, and the Model object with flip_tile / describe_tile.  *)
(*                                                                         *)
(* Python lists are TLA+ sequences (1-based); the arguments row and col    *)
(* keep the source's 0-based numbering, so element [row][col] of a list of *)
(* lists is seq[row + 1][col + 1].                                         *)
(***************************************************************************)
EXTENDS Integers, Sequences, FiniteSets, TLC

(* Bounds of the model. *)
MaxDim == 2
MaxDifficulty == 4

VARIABLES
    length,      \* self.length
    width,       \* self.width
    difficulty,  \* self.difficulty
    board,       \* self.board
    flipped,     \* self.flipped
    row_data,    \* self.row_data
    col_data,    \* self.col_data
    score,       \* self.score: a Python int or a Python str
    game_over,   \* self.game_over
    call,        \* the last method call made on the object: [op, row, col]
    raised,      \* the exception that call raised, or NoException
    returned,    \* the value that call returned (describe_tile), or NoValue
    flips_ok     \* history: number of flip_tile calls that returned normally

fields == <<length, width, difficulty, board, flipped, row_data, col_data,
            score, game_over>>
vars == <<length, width, difficulty, board, flipped, row_data, col_data,
          score, game_over, call, raised, returned, flips_ok>>

---------------------------------------------------------------------------
(* Python values *)

\* A Python int and a Python str, tagged so that the two are comparable.
PyInt(n) == [type |-> "int", int |-> n, str |-> ""]
PyStr(s) == [type |-> "str", int |-> 0, str |-> s]

RECURSIVE StrRepeat(_, _)
\* str * int: the string repeated n times, empty for n <= 0.
StrRepeat(s, n) == IF n <= 0 THEN "" ELSE s \o StrRepeat(s, n - 1)

\* x == 0 for a Python int or str x (a str never equals 0).
PyIsZero(x) == x.type = "int" /\ x.int = 0

\* x * v for a Python int or str x and an int v.
PyMul(x, v) == IF x.type = "int" THEN PyInt(x.int * v)
               ELSE PyStr(StrRepeat(x.str, v))

\* str(v) for a tile value v.
Digits == <<"0", "1", "2", "3", "4", "5", "6", "7", "8", "9">>
PyStrOf(v) == Digits[v + 1]

Min(a, b) == IF a <= b THEN a ELSE b
Max(a, b) == IF a >= b THEN a ELSE b

\* list[i] raises IndexError: an index outside -len .. len-1.
IdxRaises(list, i) == i >= Len(list) \/ i < -Len(list)
\* list[i], a negative index counting from the end.
Idx(list, i) == IF i >= 0 THEN list[i + 1] ELSE list[Len(list) + i + 1]

\* [x] * n: n copies of x, the empty list for n <= 0.
Repeat(x, n) == [k \in 1..Max(0, n) |-> x]

RECURSIVE SumSeq(_)
SumSeq(s) == IF s = <<>> THEN 0 ELSE Head(s) + SumSeq(Tail(s))

\* list.count(x)
Count(list, x) == Cardinality({k \in 1..Len(list) : list[k] = x})

---------------------------------------------------------------------------
(* Exceptions and results *)

NoException == [type |-> "None", msg |-> ""]
NoValue == "None"
TileOutOfBounds ==
    [type |-> "Exception",
     msg |-> "Played in a tile that does not exist on the board."]
TileFlipped ==
    [type |-> "Exception", msg |-> "This tile has already been flipped!"]
GameOver ==
    [type |-> "Exception", msg |-> "The game is over, you already lost!"]
IndexError == [type |-> "IndexError", msg |-> "list index out of range"]

\* The value self.score holds after a bomb is flipped before any other tile.
Lost == PyStr("YOU LOSE")

---------------------------------------------------------------------------
(* Board generation *)

\* The assert of reshape2D fails.
reshape2D_raises(array, len, wid) == Len(array) # len * wid

\* [array[n:(n + length)] for n in range(0, len(array), length)]
reshape2D(array, len, wid) ==
    [k \in 1..((Len(array) + len - 1) \div len) |->
        SubSeq(array, (k - 1) * len + 1, Min(k * len, Len(array)))]

\* The values random.randint may return for the number of 2 tiles.
TwoTileDraws(len, wid, diff) ==
    LET total_tiles == len * wid
        num_multiplier_tiles == total_tiles - ((total_tiles * 3) \div 4)
        low_bound_two_tiles == Max(0, num_multiplier_tiles - diff)
    IN  low_bound_two_tiles..num_multiplier_tiles

\* Mutant of difficulty_to_tile_distribution: the difficulty term is
\* subtracted from the voltorb count instead of added.
difficulty_to_tile_distribution_SubtractsDifficulty(len, wid, diff, twos) ==
    LET total_tiles == len * wid
        voltorbs == (3 * total_tiles - 5 * diff) \div 10
        ones == ((total_tiles * 3) \div 4) - voltorbs
        num_multiplier_tiles == total_tiles - ((total_tiles * 3) \div 4)
    IN  <<voltorbs, ones, twos, num_multiplier_tiles - twos>>

\* The tile distribution, given the number of 2 tiles that was drawn.
difficulty_to_tile_distribution(len, wid, diff, twos) ==
    LET total_tiles == len * wid
        voltorbs == (3 * total_tiles + 5 * diff) \div 10
        ones == ((total_tiles * 3) \div 4) - voltorbs
        num_multiplier_tiles == total_tiles - ((total_tiles * 3) \div 4)
    IN  <<voltorbs, ones, twos, num_multiplier_tiles - twos>>

\* The flat tile list before the shuffle: dist[i+1] copies of i, in order.
TileList(dist) ==
    Repeat(0, dist[1]) \o Repeat(1, dist[2]) \o Repeat(2, dist[3])
        \o Repeat(3, dist[4])

\* Mutant of Shuffles: the tiles are drawn with replacement (random.choices)
\* instead of being rearranged.
Shuffles_WithReplacement(tiles) ==
    [1..Len(tiles) -> {tiles[k] : k \in 1..Len(tiles)}]

\* The lists random.shuffle may leave: every rearrangement of tiles.
Shuffles(tiles) ==
    {s \in [1..Len(tiles) -> 0..3] :
        \A v \in 0..3 : Count(s, v) = Count(tiles, v)}

\* The boards generate_board may return (none when reshape2D's assert fails).
generate_board(len, wid, diff) ==
    {reshape2D(shuffled, len, wid) :
        shuffled \in UNION {
            IF reshape2D_raises(
                   TileList(difficulty_to_tile_distribution(len, wid, diff, twos)),
                   len, wid)
            THEN {}
            ELSE Shuffles(
                   TileList(difficulty_to_tile_distribution(len, wid, diff, twos)))
            : twos \in TwoTileDraws(len, wid, diff)}}

\* One (sum, number of voltorbs) pair per row of the list of lists.
get_row_data(b) == [k \in 1..Len(b) |-> <<SumSeq(b[k]), Count(b[k], 0)>>]

\* get_col_data indexes board[row_num][col_num] out of range.
get_col_data_raises(b) ==
    \E col_num \in 0..(Len(b) - 1) : \E row_num \in 0..(Len(b[1]) - 1) :
        IdxRaises(b, row_num) \/ IdxRaises(Idx(b, row_num), col_num)

\* One pair per col_num in range(len(board)), over row_num in
\* range(len(board[0])).
get_col_data(b) ==
    [k \in 1..Len(b) |->
        LET col == [r \in 1..Len(b[1]) |-> b[r][k]]
        IN  <<SumSeq(col), Count(col, 0)>>]

---------------------------------------------------------------------------
(* The Model object *)

Coord == -1..MaxDim

\* Model.__init__ with the board b in place of generate_board's result.
Model_init(len, wid, diff, b) ==
    /\ ~reshape2D_raises(Repeat(FALSE, len * wid), len, wid)
    /\ ~get_col_data_raises(b)
    /\ length = len
    /\ width = wid
    /\ difficulty = diff
    /\ board = b
    /\ flipped = reshape2D(Repeat(FALSE, len * wid), len, wid)
    /\ row_data = get_row_data(b)
    /\ col_data = get_col_data(b)
    /\ score = PyInt(0)
    /\ game_over = FALSE
    /\ call = [op |-> "__init__", row |-> 0, col |-> 0]
    /\ raised = NoException
    /\ returned = NoValue
    /\ flips_ok = 0

\* Model(length, width, difficulty) returned an object.
Init ==
    \E len \in 1..MaxDim, wid \in 1..MaxDim, diff \in 1..MaxDifficulty :
        \E b \in generate_board(len, wid, diff) :
            Model_init(len, wid, diff, b)

---------------------------------------------------------------------------
(* flip_tile *)

\* Mutant of flip_tile_raises: the game-over check comes before the
\* already-flipped check.
flip_tile_raises_GameOverFirst(row, col) ==
    IF row >= length \/ row < 0 \/ col >= width \/ col < 0
    THEN TileOutOfBounds
    ELSE IF game_over
    THEN GameOver
    ELSE IF IdxRaises(flipped, row) \/ IdxRaises(Idx(flipped, row), col)
    THEN IndexError
    ELSE IF Idx(Idx(flipped, row), col)
    THEN TileFlipped
    ELSE NoException

\* Mutant of flip_tile_raises: the game-over check is missing.
flip_tile_raises_NoGameOverCheck(row, col) ==
    IF row >= length \/ row < 0 \/ col >= width \/ col < 0
    THEN TileOutOfBounds
    ELSE IF IdxRaises(flipped, row) \/ IdxRaises(Idx(flipped, row), col)
    THEN IndexError
    ELSE IF Idx(Idx(flipped, row), col)
    THEN TileFlipped
    ELSE NoException

\* Mutant of flip_tile_raises: the already-flipped check is missing.
flip_tile_raises_NoFlippedCheck(row, col) ==
    IF row >= length \/ row < 0 \/ col >= width \/ col < 0
    THEN TileOutOfBounds
    ELSE IF IdxRaises(flipped, row) \/ IdxRaises(Idx(flipped, row), col)
    THEN IndexError
    ELSE IF game_over
    THEN GameOver
    ELSE NoException

\* The exception flip_tile raises before changing anything, or NoException:
\* the three checks in the source's order, and the list reads they make.
flip_tile_raises(row, col) ==
    IF row >= length \/ row < 0 \/ col >= width \/ col < 0
    THEN TileOutOfBounds
    ELSE IF IdxRaises(flipped, row) \/ IdxRaises(Idx(flipped, row), col)
    THEN IndexError
    ELSE IF Idx(Idx(flipped, row), col)
    THEN TileFlipped
    ELSE IF game_over
    THEN GameOver
    ELSE IF IdxRaises(board, row) \/ IdxRaises(Idx(board, row), col)
    THEN IndexError
    ELSE NoException

\* Mutant of MarkFlipped: the row is replaced by a fresh row holding only
\* the new mark.
MarkFlipped_ReplacesRow(f, row, col) ==
    [f EXCEPT ![row + 1] = [k \in 1..Len(f[row + 1]) |-> k = col + 1]]

\* Mutant of MarkFlipped: the whole row is marked.
MarkFlipped_WholeRow(f, row, col) ==
    [f EXCEPT ![row + 1] = [k \in 1..Len(f[row + 1]) |-> TRUE]]

\* self.flipped[row][col] = True
MarkFlipped(f, row, col) == [f EXCEPT ![row + 1][col + 1] = TRUE]

\* Mutant of NextGameOver: a tile of value 1 ends the game as a bomb does.
NextGameOver_OnesEndGame(over, flipped_tile_value) ==
    IF flipped_tile_value <= 1 THEN TRUE ELSE over

\* Mutant of NextGameOver: a bomb does not set game_over.
NextGameOver_NeverSet(over, flipped_tile_value) == over

\* if flipped_tile_value == 0: self.game_over = True
NextGameOver(over, flipped_tile_value) ==
    IF flipped_tile_value = 0 THEN TRUE ELSE over

\* Mutant of NextScore: the first flip multiplies the initial 0 like every
\* other flip.
NextScore_AlwaysMultiplies(sc, over, flipped_tile_value) ==
    IF PyIsZero(sc) /\ over
    THEN PyStr("YOU LOSE")
    ELSE PyMul(sc, flipped_tile_value)

\* The score update, reading the game_over just computed.
NextScore(sc, over, flipped_tile_value) ==
    IF PyIsZero(sc)
    THEN IF over THEN PyStr("YOU LOSE") ELSE PyInt(flipped_tile_value)
    ELSE PyMul(sc, flipped_tile_value)

\* Mutant of flip_tile: the tile is marked before the game-over check, so
\* a call refused with the game-over error has already marked it.
flip_tile_MarksBeforeGameOverCheck(row, col) ==
    LET exc == flip_tile_raises(row, col) IN
    /\ call' = [op |-> "flip_tile", row |-> row, col |-> col]
    /\ raised' = exc
    /\ returned' = NoValue
    /\ IF exc = GameOver
       THEN /\ flipped' = MarkFlipped(flipped, row, col)
            /\ UNCHANGED <<length, width, difficulty, board, row_data,
                           col_data, score, game_over, flips_ok>>
       ELSE IF exc # NoException
       THEN UNCHANGED <<fields, flips_ok>>
       ELSE LET flipped_tile_value == Idx(Idx(board, row), col) IN
            /\ flipped' = MarkFlipped(flipped, row, col)
            /\ game_over' = NextGameOver(game_over, flipped_tile_value)
            /\ score' = NextScore(score,
                                  NextGameOver(game_over, flipped_tile_value),
                                  flipped_tile_value)
            /\ flips_ok' = flips_ok + 1
            /\ UNCHANGED <<length, width, difficulty, board, row_data,
                           col_data>>

flip_tile(row, col) ==
    LET exc == flip_tile_raises(row, col) IN
    /\ call' = [op |-> "flip_tile", row |-> row, col |-> col]
    /\ raised' = exc
    /\ returned' = NoValue
    /\ IF exc # NoException
       THEN UNCHANGED <<fields, flips_ok>>
       ELSE LET flipped_tile_value == Idx(Idx(board, row), col) IN
            /\ flipped' = MarkFlipped(flipped, row, col)
            /\ game_over' = NextGameOver(game_over, flipped_tile_value)
            /\ score' = NextScore(score,
                                  NextGameOver(game_over, flipped_tile_value),
                                  flipped_tile_value)
            /\ flips_ok' = flips_ok + 1
            /\ UNCHANGED <<length, width, difficulty, board, row_data,
                           col_data>>

---------------------------------------------------------------------------
(* describe_tile *)

\* describe_tile has no bounds check: only the list reads can raise.
describe_tile_raises(row, col) ==
    IF IdxRaises(flipped, row) \/ IdxRaises(Idx(flipped, row), col)
    THEN IndexError
    ELSE IF Idx(Idx(flipped, row), col)
            /\ (IdxRaises(board, row) \/ IdxRaises(Idx(board, row), col))
    THEN IndexError
    ELSE NoException

\* "?" for a tile that is not flipped, else str of its value.
describe_tile_returns(row, col) ==
    IF ~Idx(Idx(flipped, row), col)
    THEN "?"
    ELSE PyStrOf(Idx(Idx(board, row), col))

describe_tile(row, col) ==
    /\ call' = [op |-> "describe_tile", row |-> row, col |-> col]
    /\ raised' = describe_tile_raises(row, col)
    /\ returned' = IF describe_tile_raises(row, col) # NoException
                   THEN NoValue
                   ELSE describe_tile_returns(row, col)
    /\ UNCHANGED <<fields, flips_ok>>

---------------------------------------------------------------------------
(* Specifications *)

Next ==
    \E row \in Coord, col \in Coord :
        \/ flip_tile(row, col)
        \/ describe_tile(row, col)

Spec == Init /\ [][Next]_vars

\* The boards a caller can force: generate_board replaced by a stub that
\* returns a chosen length x width grid of tile values (the way the
\* scenarios on a "manually forced" board are set up).
ForcedBoards(len, wid) ==
    [1..len -> [1..wid -> 0..3]]

\* Model(length, width, difficulty) returned an object holding a forced board.
InitForced ==
    \E len \in 1..MaxDim, wid \in 1..MaxDim, diff \in 1..MaxDifficulty :
        \E b \in ForcedBoards(len, wid) :
            Model_init(len, wid, diff, b)

SpecForced == InitForced /\ [][Next]_vars

---------------------------------------------------------------------------
(* Construction, statement by statement *)

(* Model(length, width, difficulty) run one call at a time.  call.op names *)
(* the call that returned last, returned holds what it returned, and an    *)
(* attribute that is not assigned yet holds Unset.  A raised exception     *)
(* ends the construction: no object exists.                                *)

Unset == <<>>
AssertionError == [type |-> "AssertionError", msg |-> ""]

\* __init__ entered: length, width and difficulty are stored.
Model_enter(len, wid, diff) ==
    /\ length = len
    /\ width = wid
    /\ difficulty = diff
    /\ board = Unset
    /\ flipped = Unset
    /\ row_data = Unset
    /\ col_data = Unset
    /\ score = PyInt(0)
    /\ game_over = FALSE
    /\ call = [op |-> "Model", row |-> 0, col |-> 0]
    /\ raised = NoException
    /\ returned = NoValue
    /\ flips_ok = 0

InitNew ==
    \E len \in 1..MaxDim, wid \in 1..MaxDim, diff \in 1..MaxDifficulty :
        Model_enter(len, wid, diff)

\* The position in __init__: the last call returned normally and was op.
After(op) == call.op = op /\ raised = NoException

\* generate_board calls difficulty_to_tile_distribution.
call_difficulty_to_tile_distribution ==
    /\ After("Model")
    /\ \E twos \in TwoTileDraws(length, width, difficulty) :
           returned' = difficulty_to_tile_distribution(length, width,
                                                       difficulty, twos)
    /\ call' = [call EXCEPT !.op = "difficulty_to_tile_distribution"]
    /\ UNCHANGED <<fields, raised, flips_ok>>

\* The rest of generate_board: the flat list, the shuffle, reshape2D.
call_generate_board ==
    /\ After("difficulty_to_tile_distribution")
    /\ call' = [call EXCEPT !.op = "generate_board"]
    /\ IF reshape2D_raises(TileList(returned), length, width)
       THEN /\ raised' = AssertionError
            /\ returned' = NoValue
            /\ UNCHANGED <<fields, flips_ok>>
       ELSE /\ \E shuffled \in Shuffles(TileList(returned)) :
                   board' = reshape2D(shuffled, length, width)
            /\ returned' = NoValue
            /\ UNCHANGED <<length, width, difficulty, flipped, row_data,
                           col_data, score, game_over, raised, flips_ok>>

\* self.flipped = reshape2D([False] * total_tiles, length, width)
call_reshape2D_flipped ==
    /\ After("generate_board")
    /\ call' = [call EXCEPT !.op = "reshape2D"]
    /\ IF reshape2D_raises(Repeat(FALSE, length * width), length, width)
       THEN /\ raised' = AssertionError
            /\ UNCHANGED <<fields, returned, flips_ok>>
       ELSE /\ flipped' = reshape2D(Repeat(FALSE, length * width),
                                    length, width)
            /\ UNCHANGED <<length, width, difficulty, board, row_data,
                           col_data, score, game_over, raised, returned,
                           flips_ok>>

\* self.row_data = get_row_data(self.board)
call_get_row_data ==
    /\ After("reshape2D")
    /\ call' = [call EXCEPT !.op = "get_row_data"]
    /\ row_data' = get_row_data(board)
    /\ UNCHANGED <<length, width, difficulty, board, flipped, col_data,
                   score, game_over, raised, returned, flips_ok>>

\* self.col_data = get_col_data(self.board)
call_get_col_data ==
    /\ After("get_row_data")
    /\ call' = [call EXCEPT !.op = "get_col_data"]
    /\ IF get_col_data_raises(board)
       THEN /\ raised' = IndexError
            /\ UNCHANGED <<fields, returned, flips_ok>>
       ELSE /\ col_data' = get_col_data(board)
            /\ UNCHANGED <<length, width, difficulty, board, flipped,
                           row_data, score, game_over, raised, returned,
                           flips_ok>>

\* self.score = 0; self.game_over = False; __init__ returns.
return_init ==
    /\ After("get_col_data")
    /\ call' = [call EXCEPT !.op = "__init__"]
    /\ score' = PyInt(0)
    /\ game_over' = FALSE
    /\ UNCHANGED <<length, width, difficulty, board, flipped, row_data,
                   col_data, raised, returned, flips_ok>>

NextNew ==
    \/ call_difficulty_to_tile_distribution
    \/ call_generate_board
    \/ call_reshape2D_flipped
    \/ call_get_row_data
    \/ call_get_col_data
    \/ return_init

SpecNew == InitNew /\ [][NextNew]_vars

\* __init__ with generate_board replaced by a stub returning a forced
\* length x width board: the construction from the point where the board
\* is stored.
InitHints ==
    \E len \in 1..MaxDim, wid \in 1..MaxDim, diff \in 1..MaxDifficulty :
        \E b \in ForcedBoards(len, wid) :
            /\ length = len
            /\ width = wid
            /\ difficulty = diff
            /\ board = b
            /\ flipped = Unset
            /\ row_data = Unset
            /\ col_data = Unset
            /\ score = PyInt(0)
            /\ game_over = FALSE
            /\ call = [op |-> "generate_board", row |-> 0, col |-> 0]
            /\ raised = NoException
            /\ returned = NoValue
            /\ flips_ok = 0

NextHints ==
    \/ call_reshape2D_flipped
    \/ call_get_row_data
    \/ call_get_col_data
    \/ return_init

SpecHints == InitHints /\ [][NextHints]_vars

---------------------------------------------------------------------------
(* Vocabulary of the properties *)

InBounds(row, col) == row \in 0..(length - 1) /\ col \in 0..(width - 1)
Cells == (0..(length - 1)) \X (0..(width - 1))
TileAt(p) == board[p[1] + 1][p[2] + 1]
IsFlipped(p) == flipped[p[1] + 1][p[2] + 1]
RevealedCells == {p \in Cells : IsFlipped(p)}
HiddenMultipliers == {p \in Cells : ~IsFlipped(p) /\ TileAt(p) \in {2, 3}}

RECURSIVE ProductOf(_)
\* The product of the tile values of a set of cells (1 for no cell).
ProductOf(S) ==
    IF S = {} THEN 1
    ELSE LET p == CHOOSE q \in S : TRUE
         IN  TileAt(p) * ProductOf(S \ {p})

\* The last call was flip_tile, it returned normally, and it flipped cell p.
FlippedBy(p) ==
    /\ call.op = "flip_tile"
    /\ raised = NoException
    /\ p = <<call.row, call.col>>

\* The score is a terminal sentinel other than Lost, and the game is over.
WonState == game_over /\ score.type = "str" /\ score # Lost

---------------------------------------------------------------------------
(* C1 - C10 *)

C2_FailedFlipChangesNothing ==
    [][(call'.op = "flip_tile" /\ raised' # NoException) =>
        UNCHANGED <<board, flipped, score, game_over, length, width,
                    difficulty, row_data, col_data>>
    ]_vars

\* C2 witness: the one flipped tile was flipped a second time while the
\* game was on; the call raised and one tile is flipped.
C2_Witness ==
    /\ call.op = "flip_tile"
    /\ raised = TileFlipped
    /\ ~game_over
    /\ flips_ok = 1
    /\ RevealedCells = {<<call.row, call.col>>}

\* C3: a flip_tile call that returns normally and flipped a bomb leaves
\* score equal to the Lost sentinel and game_over true, whatever the score
\* was before.
C3_BombYieldsLost ==
    \A p \in Cells :
        (FlippedBy(p) /\ TileAt(p) = 0) => (score = Lost /\ game_over)

\* C4: after a flip_tile call that returned normally and flipped a tile
\* that is not a bomb and not the first tile flipped, if no unflipped tile
\* has value 2 or 3, the score is the Won sentinel and game_over is true.
C4_WonWhenNoMultiplierHidden ==
    \A p \in Cells :
        (/\ FlippedBy(p)
         /\ TileAt(p) # 0
         /\ Cardinality(RevealedCells) >= 2
         /\ HiddenMultipliers = {}) => WonState

\* C5: while the game is not over, the score is 0 when no tile is flipped
\* and otherwise the product of the values of the flipped tiles.
C5_ScoreIsProduct ==
    ~game_over =>
        score = IF RevealedCells = {} THEN PyInt(0)
                ELSE PyInt(ProductOf(RevealedCells))

\* C5 witness: the game is on, at least two tiles are flipped and the
\* score is above 1.
C5_Witness ==
    /\ ~game_over
    /\ Cardinality(RevealedCells) >= 2
    /\ score.type = "int"
    /\ score.int > 1

\* C6: once game_over is true, every flip_tile call raises and no field of
\* the object changes again, whatever is called.
C6_TerminalAbsorbing ==
    [][game_over =>
        /\ UNCHANGED <<board, flipped, score, game_over>>
        /\ call'.op = "flip_tile" => raised' # NoException
    ]_vars

\* C6 witness: the game is over and a flip_tile of an unflipped tile was
\* refused with the game-over error.
C6_Witness ==
    /\ game_over
    /\ call.op = "flip_tile"
    /\ raised = GameOver

\* C7: a flip_tile call that returned normally and flipped a non-bomb tile
\* while an unflipped tile of value 2 or 3 remains leaves game_over false
\* and the score a positive integer.
C7_NoPrematureEnd ==
    \A p \in Cells :
        (FlippedBy(p) /\ TileAt(p) # 0 /\ HiddenMultipliers # {}) =>
            (~game_over /\ score.type = "int" /\ score.int > 0)

\* C7 witness: on the board [[1,2],[0,3]], flip_tile(0,0) then
\* flip_tile(0,1) leave score 2 and game_over false.
C7_Witness ==
    /\ board = <<<<1, 2>>, <<0, 3>>>>
    /\ FlippedBy(<<0, 1>>)
    /\ RevealedCells = {<<0, 0>>, <<0, 1>>}
    /\ score = PyInt(2)
    /\ ~game_over

\* C8: the mask is all false after construction; no step turns a true
\* entry back to false, and a tile that describe_tile renders as its value
\* is rendered as that same value after every step; a describe_tile call on
\* an in-bounds tile returns "?" when the tile is not flipped and str of
\* its value, never "?", when it is.
C8_MaskMonotone ==
    /\ \A p \in Cells : ~IsFlipped(p)
    /\ [][\A p \in Cells :
            IsFlipped(p) =>
                /\ flipped'[p[1] + 1][p[2] + 1]
                /\ PyStrOf(board'[p[1] + 1][p[2] + 1]) = PyStrOf(TileAt(p))
       ]_vars
    /\ [](\A p \in Cells :
            (call.op = "describe_tile" /\ p = <<call.row, call.col>>) =>
                /\ raised = NoException
                /\ returned = IF IsFlipped(p) THEN PyStrOf(TileAt(p)) ELSE "?"
                /\ IsFlipped(p) => returned # "?")

\* C8 witness: describe_tile returned the value of a flipped tile after a
\* later flip of another tile.
C8_Witness ==
    /\ call.op = "describe_tile"
    /\ InBounds(call.row, call.col)
    /\ returned = PyStrOf(TileAt(<<call.row, call.col>>))
    /\ Cardinality(RevealedCells) >= 2

\* C9: the number of true entries of the mask equals the number of
\* flip_tile calls that returned normally (so a flip of a flipped tile
\* never returns normally).
C9_MaskCountsFlips == Cardinality(RevealedCells) = flips_ok

\* C9 witness: with two tiles flipped, a flip of a flipped tile was refused.
C9_Witness ==
    /\ flips_ok = 2
    /\ call.op = "flip_tile"
    /\ raised = TileFlipped

\* C10: on a board with no tile of value 2 or 3, once every non-bomb tile
\* is flipped and no bomb is, the score is the Won sentinel and game_over
\* is true. (Stated for boards with at least two tiles of value 1, so that
\* the last flip is not the first one.)
C10_OnesOnlyBoardWon ==
    (/\ \A p \in Cells : TileAt(p) \in {0, 1}
     /\ Cardinality({p \in Cells : TileAt(p) = 1}) >= 2
     /\ RevealedCells = {p \in Cells : TileAt(p) = 1}) => WonState

---------------------------------------------------------------------------
(* C11 - C18 *)

\* The number of cells of a list of lists that hold v.
CountBoard(b, v) == SumSeq([k \in 1..Len(b) |-> Count(b[k], v)])
\* The sum of the cells of a list of lists.
SumBoard(b) == SumSeq([k \in 1..Len(b) |-> SumSeq(b[k])])
\* b has rows rows of cols cells each.
IsGrid(b, rows, cols) ==
    Len(b) = rows /\ \A k \in 1..Len(b) : Len(b[k]) = cols

\* C11: for every length, width and difficulty >= 1 and every draw, the
\* four entries difficulty_to_tile_distribution returns are non-negative
\* and sum to length * width.
C11_DistributionValid ==
    After("difficulty_to_tile_distribution") =>
        /\ \A i \in 1..4 : returned[i] >= 0
        /\ returned[1] + returned[2] + returned[3] + returned[4]
               = length * width

\* C12: the board generate_board returns and the mask built next to it
\* have exactly length rows of exactly width cells, so every (row, col)
\* with 0 <= row < length and 0 <= col < width addresses a cell.
C12_BoardIsLengthByWidth ==
    /\ After("generate_board") => IsGrid(board, length, width)
    /\ After("reshape2D") => IsGrid(flipped, length, width)

\* C13: for every board generate_board returns and every value v in
\* 0..3, the number of cells holding v is the entry for v of the
\* distribution the board was built from.
C13_BoardCountsMatchDistribution ==
    [][(/\ After("difficulty_to_tile_distribution")
        /\ call'.op = "generate_board"
        /\ raised' = NoException) =>
            \A v \in 0..3 : CountBoard(board', v) = returned[v + 1]
    ]_vars

\* C13 witness: a 2 x 2 board was generated with two 1 tiles and a 3 tile.
C13_Witness ==
    /\ After("generate_board")
    /\ length = 2
    /\ width = 2
    /\ CountBoard(board, 1) = 2
    /\ CountBoard(board, 3) = 1

\* C14: for every board of length rows and width columns, the hints are
\* computed without failure, one (sum, zeros) pair per row and one per
\* column; the row sums and the column sums both add up to the sum of all
\* tiles, and the row bomb counts add up to the number of bombs.
C14_HintsPerRowAndColumn ==
    call.op = "get_col_data" =>
        /\ raised = NoException
        /\ Len(row_data) = length
        /\ Len(col_data) = width
        /\ \A r \in 1..length :
               row_data[r] = <<SumSeq(board[r]), Count(board[r], 0)>>
        /\ \A c \in 1..width :
               LET column == [r \in 1..length |-> board[r][c]]
               IN  col_data[c] = <<SumSeq(column), Count(column, 0)>>
        /\ SumSeq([r \in 1..length |-> row_data[r][1]]) = SumBoard(board)
        /\ SumSeq([c \in 1..width |-> col_data[c][1]]) = SumBoard(board)
        /\ SumSeq([r \in 1..length |-> row_data[r][2]]) = CountBoard(board, 0)

\* C15: for fixed length and width, the number of voltorbs computed for a
\* difficulty is at least the number computed for every smaller difficulty.
C15_BombsMonotone ==
    After("difficulty_to_tile_distribution") =>
        \A d1 \in 1..difficulty :
            difficulty_to_tile_distribution(length, width, d1, 0)[1]
                <= returned[1]

\* C15 witness: a distribution was computed at a difficulty above 1 with
\* strictly more voltorbs than at difficulty 1.
C15_Witness ==
    /\ After("difficulty_to_tile_distribution")
    /\ difficulty >= 2
    /\ returned[1] > difficulty_to_tile_distribution(length, width, 1, 0)[1]

\* C16: a flip_tile call leaves the board, the hints, length and width and
\* every mask entry other than the one at (row, col) unchanged; a
\* describe_tile call changes no field at all.
C16_Frame ==
    [][/\ call'.op = "flip_tile" =>
            /\ UNCHANGED <<board, row_data, col_data, length, width>>
            /\ Len(flipped') = Len(flipped)
            /\ \A p \in Cells :
                   p # <<call'.row, call'.col>> =>
                       flipped'[p[1] + 1][p[2] + 1] = IsFlipped(p)
       /\ call'.op = "describe_tile" =>
            UNCHANGED <<board, flipped, score, game_over, row_data,
                        col_data, length, width>>
    ]_vars

\* C16 witness: a flip_tile call returned normally, changed the score to a
\* value above 1, and another tile of its row is still not flipped.
C16_Witness ==
    /\ call.op = "flip_tile"
    /\ raised = NoException
    /\ score.type = "int"
    /\ score.int > 1
    /\ \E p \in Cells : p[1] = call.row /\ p[2] # call.col /\ ~IsFlipped(p)

\* C17: no state has every tile flipped, or every tile of value 2 or 3
\* flipped and no bomb flipped, while game_over is false.
C17_NoStuckPlaying ==
    ~game_over =>
        /\ RevealedCells # Cells
        /\ ~(/\ HiddenMultipliers = {}
             /\ \A p \in RevealedCells : TileAt(p) # 0)

\* C18: at most one flipped tile is a bomb, and a bomb is flipped only if
\* game_over is true.
C18_AtMostOneBombRevealed ==
    /\ Cardinality({p \in RevealedCells : TileAt(p) = 0}) <= 1
    /\ (\E p \in RevealedCells : TileAt(p) = 0) => game_over

\* C18 witness: one bomb is flipped, the game is over, and a flip of a
\* second bomb was refused.
C18_Witness ==
    /\ game_over
    /\ Cardinality({p \in RevealedCells : TileAt(p) = 0}) = 1
    /\ call.op = "flip_tile"
    /\ raised = GameOver
    /\ TileAt(<<call.row, call.col>>) = 0

===========================================================================
